---- MODULE Spec2Model ----
(***************************************************************************)
(* Model of msgtrace.sdk.events: the dual-emission event sink add_event,   *)
(* the context variable _event_queue, and the EventStream scoped           *)
(* subscriber (enter/exit, close, on_event, the async drain, the events    *)
(* snapshot), under asyncio's single-threaded cooperative scheduling.      *)
(***************************************************************************)
EXTENDS Integers, Sequences, FiniteSets, TLC

(***************************************************************************)
(* Bounds of the model.                                                    *)
(***************************************************************************)
\* add_event calls per behaviour
MaxEmit == 2
\* sentinels put into one stream's queue per behaviour
MaxSentinels == 2
\* callbacks registered on one stream
MaxCallbacks == 2

\* tasks: 0 is the main task, the others are created by asyncio.create_task
Tasks == {0, 1}
\* EventStream objects
Streams == {1, 2}
\* callback functions; the ones in FailingCallbacks may raise when invoked
Callbacks == {"cb_ok", "cb_raises"}
FailingCallbacks == {"cb_raises"}
\* event names passed to add_event
Names == {"test.event"}

(***************************************************************************)
(* Python values that occur as attribute values.                           *)
(***************************************************************************)
None == [type |-> "NoneType"]
PyInt(n) == [type |-> "int", v |-> n]
PyStr(s) == [type |-> "str", v |-> s]
PyList(xs) == [type |-> "list", v |-> xs]
\* a dict is its insertion-ordered sequence of <<key, value>> pairs
PyTuple(xs) == [type |-> "tuple", v |-> xs]
PyDict(ps) == [type |-> "dict", v |-> ps]
\* an object json cannot encode (object(), a set, ...)
Obj == [type |-> "object"]

\* attributes arguments of add_event: absent, empty, scalar, nested,
\* nested non-serializable, top-level non-serializable scalar, tuple
AttrNone == None
AttrEmpty == PyDict(<<>>)
AttrScalar == PyDict(<< <<"key", PyStr("value")>> >>)
AttrComplex ==
    PyDict(<< <<"number", PyInt(42)>>,
            <<"dict", PyDict(<< <<"nested", PyStr("value")>> >>)>>,
            <<"list", PyList(<<PyInt(1), PyInt(2)>>)>> >>)
AttrBadNested == PyDict(<< <<"index", PyInt(1)>>, <<"bad", PyList(<<Obj>>)>> >>)
AttrObject == PyDict(<< <<"obj", Obj>> >>)
AttrTuple == PyDict(<< <<"pair", PyTuple(<<PyInt(1), PyInt(2)>>)>> >>)
AttrInputs ==
    {AttrNone, AttrEmpty, AttrScalar, AttrComplex, AttrBadNested, AttrObject, AttrTuple}
\* the attributes producers pass in the streaming specifications
StreamInputs == {AttrComplex, AttrBadNested}

(***************************************************************************)
(* json.dumps with its default separators, on the values above.            *)
(***************************************************************************)
RECURSIVE Serializable(_)
Serializable(v) ==
    CASE v.type \in {"int", "str", "NoneType"} -> TRUE
      [] v.type \in {"list", "tuple"} -> \A i \in 1..Len(v.v) : Serializable(v.v[i])
      [] v.type = "dict" -> \A i \in 1..Len(v.v) : Serializable(v.v[i][2])
      [] OTHER -> FALSE

RECURSIVE Join(_, _)
Join(texts, sep) ==
    IF texts = <<>> THEN ""
    ELSE IF Len(texts) = 1 THEN texts[1]
    ELSE texts[1] \o sep \o Join(Tail(texts), sep)

RECURSIVE json_dumps(_)
json_dumps(v) ==
    CASE v.type = "int" -> ToString(v.v)
      [] v.type = "str" -> "\"" \o v.v \o "\""
      [] v.type = "NoneType" -> "null"
      [] v.type \in {"list", "tuple"} ->
            "[" \o Join([i \in 1..Len(v.v) |-> json_dumps(v.v[i])], ", ") \o "]"
      [] v.type = "dict" ->
            "{" \o Join([i \in 1..Len(v.v) |->
                            "\"" \o v.v[i][1] \o "\": " \o json_dumps(v.v[i][2])], ", ")
                \o "}"

\* a test that takes only a dict for a nested value
IsDictOrList_dict_only(value) == value.type = "dict"

\* isinstance(value, (dict, list))
IsDictOrList(value) == value.type \in {"dict", "list"}

\* attrs = attributes or {}
Attrs(attributes) ==
    IF attributes = None THEN PyDict(<<>>)
    ELSE IF attributes.v = <<>> THEN PyDict(<<>>) ELSE attributes

\* the loop building serialized_attrs raises TypeError at the first value
\* json.dumps cannot encode
SerializeRaises(attrs) ==
    \E i \in 1..Len(attrs.v) : IsDictOrList(attrs.v[i][2]) /\ ~Serializable(attrs.v[i][2])

SerializeValue(value) == IF IsDictOrList(value) THEN PyStr(json_dumps(value)) ELSE value

SerializedAttrs(attrs) ==
    PyDict([i \in 1..Len(attrs.v) |-> <<attrs.v[i][1], SerializeValue(attrs.v[i][2])>>])

(***************************************************************************)
(* format(n, "016x") / format(n, "032x")                                    *)
(***************************************************************************)
SpanIdWidth == 16
TraceIdWidth == 32

HexDigit(d) == SubSeq("0123456789abcdef", d + 1, d + 1)

RECURSIVE HexDigits(_)
HexDigits(n) == IF n < 16 THEN HexDigit(n) ELSE HexDigits(n \div 16) \o HexDigit(n % 16)

RECURSIVE Zeros(_)
Zeros(k) == IF k <= 0 THEN "" ELSE "0" \o Zeros(k - 1)

\* format(n, "x"): no padding to the width
Format_unpadded(n, width) == HexDigits(n)

Format(n, width) == Zeros(width - Len(HexDigits(n))) \o HexDigits(n)

(***************************************************************************)
(* Spans of the tracing collaborator: the non-recording span returned when *)
(* no span is current, and a recording one.                                *)
(***************************************************************************)
NonRecordingSpan == [recording |-> FALSE, name |-> "", span_id |-> 0, trace_id |-> 0]
RecordingSpan == [recording |-> TRUE, name |-> "test_span", span_id |-> 43981, trace_id |-> 74565]
SpanSet == {NonRecordingSpan, RecordingSpan}

(***************************************************************************)
(* State.                                                                  *)
(***************************************************************************)
VARIABLES
    event_queue,   \* _event_queue in each task's context: 0 is None, s is stream s's _queue
    current_span,  \* trace.get_current_span() in each task's context
    spawned,       \* the tasks that exist
    queue,         \* EventStream._queue: events and None sentinels, head first
    token,         \* EventStream._token: None or the Token of the latest enter
    callbacks,     \* EventStream._callbacks
    drain,         \* the async generator of __aiter__: "none", "running", "exhausted", "failed"
    clock,         \* add_event calls made so far; stands for time.time_ns()
    span_events,   \* the span.add_event calls made, in order
    enqLog,        \* history: every item put into each queue, in order
    deqLog,        \* history: every item taken from each queue, with the taker
    trace,         \* history: callback invocations and yields of each stream's drains
    drains,        \* history: drains started on each stream
    scope,         \* history: the streams each task has entered and not exited
    base,          \* history: the slot value each task started with
    lifo,          \* history: every exit so far left the innermost open scope of its task
    fresh,         \* history: no stream was entered while one of its scopes was open
    last           \* the latest call and how it ended

vars == <<event_queue, current_span, spawned, queue, token, callbacks, drain, clock,
          span_events, enqLog, deqLog, trace, drains, scope, base, lifo, fresh, last>>

\* a call: its task (-1 when it does not read the context), the stream it is made
\* on (for add_event the slot value it found), the exception it ended with and,
\* for add_event, its attributes argument (for events, the list it returned)
Call(op, t, s, exc, arg) == [op |-> op, task |-> t, stream |-> s, exc |-> exc, arg |-> arg]

\* EventStream.__init__ for every stream; the context variable has its default
Init ==
    /\ event_queue = [t \in Tasks |-> 0]
    /\ current_span = [t \in Tasks |-> NonRecordingSpan]
    /\ spawned = {0}
    /\ queue = [s \in Streams |-> <<>>]
    /\ token = [s \in Streams |-> None]
    /\ callbacks = [s \in Streams |-> <<>>]
    /\ drain = [s \in Streams |-> "none"]
    /\ clock = 0
    /\ span_events = <<>>
    /\ enqLog = [s \in Streams |-> <<>>]
    /\ deqLog = [s \in Streams |-> <<>>]
    /\ trace = [s \in Streams |-> <<>>]
    /\ drains = [s \in Streams |-> 0]
    /\ scope = [t \in Tasks |-> <<>>]
    /\ base = [t \in Tasks |-> 0]
    /\ lifo = TRUE
    /\ fresh = TRUE
    /\ last = Call("init", 0, 0, "none", None)

(***************************************************************************)
(* Helpers on queues and histories.                                        *)
(***************************************************************************)
\* put_nowait as a stack would do it: the newest item first
put_nowait_lifo(q, item) == <<item>> \o q

\* put_nowait on a queue of size one that drops what does not fit
put_nowait_drops(q, item) == IF q = <<>> THEN <<item>> ELSE q

\* put_nowait on a queue that refuses items once it holds a sentinel
put_nowait_closed(q, item) ==
    IF \E i \in 1..Len(q) : q[i] = None THEN q ELSE Append(q, item)

\* asyncio.Queue.put_nowait on an unbounded queue
put_nowait(q, item) == Append(q, item)

IsEvent(item) == item.type = "StreamEvent"
Events(items) == SelectSeq(items, IsEvent)
Sentinels(items) == SelectSeq(items, LAMBDA x : x = None)
Range(f) == {f[i] : i \in DOMAIN f}
Last(seq) == seq[Len(seq)]
Front(seq) == SubSeq(seq, 1, Len(seq) - 1)

(***************************************************************************)
(* add_event                                                               *)
(***************************************************************************)
\* the slot as one module global shared by all tasks instead of a context variable
LookupQueue_global(t) == event_queue[0]

\* queue = _event_queue.get()
LookupQueue(t) == event_queue[t]

\* the span handed the attributes as the caller gave them
SpanPayload_raw(attrs) == attrs

\* the payload of span.add_event(name, serialized_attrs)
SpanPayload(attrs) == SerializedAttrs(attrs)

\* StreamEvent(name=..., attributes=attrs, timestamp_ns=..., span_name=..., ...)
StreamEvent(name, attrs, span, now) ==
    [type |-> "StreamEvent",
     name |-> name,
     attributes |-> attrs,
     timestamp_ns |-> now,
     span_name |-> IF span.recording THEN span.name ELSE "",
     span_id |-> IF span.recording THEN Format(span.span_id, SpanIdWidth) ELSE "",
     trace_id |-> IF span.recording THEN Format(span.trace_id, TraceIdWidth) ELSE ""]

add_event(t, name, attributes) ==
    LET span == current_span[t]
        attrs == Attrs(attributes)
        q == LookupQueue(t)
        event == StreamEvent(name, attrs, span, clock + 1)
    IN  /\ t \in spawned
        /\ clock < MaxEmit
        /\ IF SerializeRaises(attrs)
           THEN /\ last' = Call("add_event", t, q, "TypeError", attributes)
                /\ UNCHANGED <<clock, span_events, queue, enqLog>>
           ELSE /\ clock' = clock + 1
                /\ span_events' =
                      IF span.recording
                      THEN Append(span_events,
                                  [span |-> span, name |-> name, attributes |-> SpanPayload(attrs)])
                      ELSE span_events
                /\ IF q # 0
                   THEN /\ queue' = [queue EXCEPT ![q] = put_nowait(@, event)]
                        /\ enqLog' = [enqLog EXCEPT ![q] = Append(@, event)]
                   ELSE UNCHANGED <<queue, enqLog>>
                /\ last' = Call("add_event", t, q, "none", attributes)
        /\ UNCHANGED <<event_queue, current_span, spawned, token, callbacks, drain,
                       deqLog, trace, drains, scope, base, lifo, fresh>>

(***************************************************************************)
(* EventStream                                                             *)
(***************************************************************************)
on_event(s, callback) ==
    /\ Len(callbacks[s]) < MaxCallbacks
    /\ callbacks' = [callbacks EXCEPT ![s] = Append(@, callback)]
    /\ last' = Call("on_event", -1, s, "none", None)
    /\ UNCHANGED <<event_queue, current_span, spawned, queue, token, drain, clock,
                   span_events, enqLog, deqLog, trace, drains, scope, base,
                   lifo, fresh>>

\* _event_queue.set(self._queue): the Token remembers the context and the old value
Enter(op, t, s) ==
    /\ t \in spawned
    /\ token' = [token EXCEPT ![s] =
                    [type |-> "Token", ctx |-> t, old |-> event_queue[t], used |-> FALSE]]
    /\ event_queue' = [event_queue EXCEPT ![t] = s]
    /\ scope' = [scope EXCEPT ![t] = Append(@, s)]
    /\ fresh' = (fresh /\ \A u \in Tasks : s \notin Range(scope[u]))
    /\ last' = Call(op, t, s, "none", None)
    /\ UNCHANGED <<current_span, spawned, queue, callbacks, drain, clock, span_events,
                   enqLog, deqLog, trace, drains, base, lifo>>

aenter(t, s) == Enter("__aenter__", t, s)

enter(t, s) == Enter("__enter__", t, s)

\* ContextVar.reset(token): RuntimeError for a token already used, ValueError for
\* a token created in another context
ResetError(t, tok) ==
    IF tok.used THEN "RuntimeError"
    ELSE IF tok.ctx # t THEN "ValueError"
    ELSE "none"

\* a reset that clears the variable instead of restoring the old value
ResetValue_none(tok) == 0

\* the value reset(token) gives the variable
ResetValue(tok) == tok.old

\* whether the exit puts the sentinel once the reset is done
AexitPutsSentinel == TRUE
ExitPutsSentinel == FALSE

RECURSIVE RemoveLast(_, _)
RemoveLast(seq, x) ==
    IF seq = <<>> THEN <<>>
    ELSE IF Last(seq) = x THEN Front(seq)
    ELSE Append(RemoveLast(Front(seq), x), Last(seq))

\* if self._token is not None: _event_queue.reset(self._token); then the put, if any
Exit(op, t, s, unwinding, puts) ==
    LET tok == token[s]
        exc == IF tok = None THEN "none" ELSE ResetError(t, tok)
    IN  /\ t \in spawned
        /\ (puts /\ exc = "none") => Len(Sentinels(enqLog[s])) < MaxSentinels
        /\ IF tok # None /\ exc = "none"
           THEN /\ event_queue' = [event_queue EXCEPT ![t] = ResetValue(tok)]
                /\ token' = [token EXCEPT ![s].used = TRUE]
           ELSE UNCHANGED <<event_queue, token>>
        /\ IF puts /\ exc = "none"
           THEN /\ queue' = [queue EXCEPT ![s] = put_nowait(@, None)]
                /\ enqLog' = [enqLog EXCEPT ![s] = Append(@, None)]
           ELSE UNCHANGED <<queue, enqLog>>
        /\ scope' = [scope EXCEPT ![t] = RemoveLast(@, s)]
        /\ lifo' = (lifo /\ scope[t] # <<>> /\ Last(scope[t]) = s)
        /\ last' = Call(op, t, s, exc, None)
        /\ UNCHANGED <<current_span, spawned, callbacks, drain, clock, span_events,
                       deqLog, trace, drains, base, fresh>>

aexit(t, s, unwinding) == Exit("__aexit__", t, s, unwinding, AexitPutsSentinel)

exit(t, s, unwinding) == Exit("__exit__", t, s, unwinding, ExitPutsSentinel)

close(s) ==
    /\ Len(Sentinels(enqLog[s])) < MaxSentinels
    /\ queue' = [queue EXCEPT ![s] = put_nowait(@, None)]
    /\ enqLog' = [enqLog EXCEPT ![s] = Append(@, None)]
    /\ last' = Call("close", -1, s, "none", None)
    /\ UNCHANGED <<event_queue, current_span, spawned, token, callbacks, drain, clock,
                   span_events, deqLog, trace, drains, scope, base, lifo, fresh>>

\* what one pass of the drain loop does with a dequeued event: the callbacks in
\* registration order, then the yield; raiser is the position of the callback
\* that raises, 0 when none does
Invoked(n, cbs, event, i) ==
    [drain |-> n, kind |-> "callback", index |-> i, callback |-> cbs[i],
     event |-> event]

Yielded(n, event) ==
    [drain |-> n, kind |-> "yield", index |-> 0, callback |-> "", event |-> event]

\* a drain loop that yields the event before it runs the callbacks
Deliver_yield_first(n, cbs, event, raiser) ==
    IF raiser = 0
    THEN <<Yielded(n, event)>> \o [i \in 1..Len(cbs) |-> Invoked(n, cbs, event, i)]
    ELSE [i \in 1..raiser |-> Invoked(n, cbs, event, i)]

\* a drain loop that swallows the exception of a callback and carries on
Deliver_swallow(n, cbs, event, raiser) ==
    [i \in 1..Len(cbs) |-> Invoked(n, cbs, event, i)] \o <<Yielded(n, event)>>

Deliver(n, cbs, event, raiser) ==
    IF raiser = 0
    THEN [i \in 1..Len(cbs) |-> Invoked(n, cbs, event, i)] \o <<Yielded(n, event)>>
    ELSE [i \in 1..raiser |-> Invoked(n, cbs, event, i)]

\* a drain loop that never takes an item for the sentinel
IsSentinel_never(event) == FALSE

\* if event is None: break
IsSentinel(event) == event = None

\* history: a drain starts, with this many callbacks registered
Started(n, cbs) ==
    [drain |-> n, kind |-> "start", index |-> Len(cbs), callback |-> "", event |-> None]

\* the call of __aiter__ that makes the async generator
aiter(s) ==
    /\ drain[s] # "running"
    /\ drain' = [drain EXCEPT ![s] = "running"]
    /\ drains' = [drains EXCEPT ![s] = @ + 1]
    /\ trace' = [trace EXCEPT ![s] = Append(@, Started(drains[s] + 1, callbacks[s]))]
    /\ last' = Call("__aiter__", -1, s, "none", None)
    /\ UNCHANGED <<event_queue, current_span, spawned, queue, token, callbacks, clock,
                   span_events, enqLog, deqLog, scope, base, lifo, fresh>>

\* one __anext__ of the generator: await self._queue.get() returns once the queue
\* holds an item; None breaks, an event goes through the callbacks and is yielded
anext(s) ==
    /\ drain[s] = "running"
    /\ queue[s] # <<>>
    /\ LET event == Head(queue[s])
       IN  /\ queue' = [queue EXCEPT ![s] = Tail(@)]
           /\ deqLog' = [deqLog EXCEPT ![s] = Append(@, [item |-> event, by |-> drains[s]])]
           /\ IF IsSentinel(event)
              THEN /\ drain' = [drain EXCEPT ![s] = "exhausted"]
                   /\ last' = Call("__anext__", -1, s, "StopAsyncIteration", None)
                   /\ UNCHANGED trace
              ELSE \E raiser \in 0..Len(callbacks[s]) :
                      /\ raiser # 0 => callbacks[s][raiser] \in FailingCallbacks
                      /\ trace' = [trace EXCEPT ![s] =
                                      @ \o Deliver(drains[s], callbacks[s], event, raiser)]
                      /\ drain' = [drain EXCEPT ![s] =
                                      IF raiser = 0 THEN "running" ELSE "failed"]
                      /\ last' = Call("__anext__", -1, s,
                                      IF raiser = 0 THEN "none" ELSE "CallbackError", None)
    /\ UNCHANGED <<event_queue, current_span, spawned, token, callbacks, clock, span_events,
                   enqLog, drains, scope, base, lifo, fresh>>

\* an accessor that returns every item it takes from the queue
Collected_all(items) == items

\* collected: the items taken that are not None, in the order taken
Collected(items) == SelectSeq(items, LAMBDA event : event # None)

\* the events property: get_nowait until the queue is empty, None left out; the
\* list returned is recorded as the argument of the call
events(s) ==
    /\ queue' = [queue EXCEPT ![s] = <<>>]
    /\ deqLog' = [deqLog EXCEPT ![s] =
                     @ \o [i \in 1..Len(queue[s]) |-> [item |-> queue[s][i], by |-> 0]]]
    /\ last' = Call("events", -1, s, "none", Collected(queue[s]))
    /\ UNCHANGED <<event_queue, current_span, spawned, token, callbacks, drain, clock,
                   span_events, enqLog, trace, drains, scope, base, lifo, fresh>>

(***************************************************************************)
(* The environment: asyncio.create_task copies the caller's context, and   *)
(* the tracing collaborator makes a span current or ends it.               *)
(***************************************************************************)
create_task(parent, t) ==
    /\ parent \in spawned
    /\ t \notin spawned
    /\ spawned' = spawned \cup {t}
    /\ event_queue' = [event_queue EXCEPT ![t] = event_queue[parent]]
    /\ current_span' = [current_span EXCEPT ![t] = current_span[parent]]
    /\ base' = [base EXCEPT ![t] = event_queue[parent]]
    /\ last' = Call("create_task", parent, 0, "none", None)
    /\ UNCHANGED <<queue, token, callbacks, drain, clock, span_events, enqLog, deqLog,
                   trace, drains, scope, lifo, fresh>>

use_span(t, span) ==
    /\ t \in spawned
    /\ span # current_span[t]
    /\ current_span' = [current_span EXCEPT ![t] = span]
    /\ last' = Call("use_span", t, 0, "none", None)
    /\ UNCHANGED <<event_queue, spawned, queue, token, callbacks, drain, clock, span_events,
                   enqLog, deqLog, trace, drains, scope, base, lifo, fresh>>

(***************************************************************************)
(* Specifications.  Each composes the program with one kind of caller.     *)
(***************************************************************************)
\* some task holds a scope of stream s open
Opened(s) == \E u \in Tasks : s \in Range(scope[u])
\* s is the innermost scope task t holds open
Innermost(t, s) == scope[t] # <<>> /\ Last(scope[t]) = s
\* every enter and exit so far kept the discipline of the with statement
Disciplined == lifo /\ fresh

\* The streaming pipeline as the class documents its use: the main task holds
\* stream 1 in "async with", producers run in the main task or in tasks it
\* creates, and the stream is closed, drained and inspected in any order.
Next ==
    \/ \E t \in Tasks, name \in Names, attributes \in StreamInputs : add_event(t, name, attributes)
    \/ ~Opened(1) /\ aenter(0, 1)
    \/ \E unwinding \in BOOLEAN : Innermost(0, 1) /\ aexit(0, 1, unwinding)
    \/ close(1)
    \/ aiter(1)
    \/ anext(1)
    \/ events(1)
    \/ \E parent \in Tasks, t \in Tasks : create_task(parent, t)

Spec == Init /\ [][Next]_vars

\* The pipeline under fair scheduling: the event loop resumes a drain whose
\* queue holds an item, and the consumer keeps iterating.
LiveSpec == Init /\ [][Next]_vars /\ WF_vars(anext(1))

\* Callbacks: the main task emits inside "async with" on stream 1, callbacks are
\* registered at any time, and one consumer drains.
CallbackNext ==
    \/ \E name \in Names, attributes \in StreamInputs : add_event(0, name, attributes)
    \/ \E callback \in Callbacks : on_event(1, callback)
    \/ ~Opened(1) /\ aenter(0, 1)
    \/ \E unwinding \in BOOLEAN : Innermost(0, 1) /\ aexit(0, 1, unwinding)
    \/ close(1)
    \/ aiter(1)
    \/ anext(1)

CallbackSpec == Init /\ [][CallbackNext]_vars

\* Scopes: two tasks enter and exit stream 1 in the async form and stream 2 in
\* the sync form; at most one of these calls per behaviour departs from the
\* discipline of the with statement (an enter of a stream that is open, or an
\* exit of a stream that is not the caller's innermost scope).
ScopeNext ==
    \/ \E t \in Tasks, name \in Names : add_event(t, name, AttrNone)
    \/ \E t \in Tasks : (Disciplined \/ ~Opened(1)) /\ aenter(t, 1)
    \/ \E t \in Tasks : (Disciplined \/ ~Opened(2)) /\ enter(t, 2)
    \/ \E t \in Tasks, unwinding \in BOOLEAN : (Disciplined \/ Innermost(t, 1)) /\ aexit(t, 1, unwinding)
    \/ \E t \in Tasks, unwinding \in BOOLEAN : (Disciplined \/ Innermost(t, 2)) /\ exit(t, 2, unwinding)
    \/ \E parent \in Tasks, t \in Tasks : create_task(parent, t)

ScopeSpec == Init /\ [][ScopeNext]_vars

\* The sink: one task calls add_event with every shape of attributes, with and
\* without a recording span, inside and outside a "with" scope of stream 1.
SinkNext ==
    \/ \E name \in Names, attributes \in AttrInputs : add_event(0, name, attributes)
    \/ ~Opened(1) /\ enter(0, 1)
    \/ \E unwinding \in BOOLEAN : Innermost(0, 1) /\ exit(0, 1, unwinding)
    \/ \E span \in SpanSet : use_span(0, span)

SinkSpec == Init /\ [][SinkNext]_vars

(***************************************************************************)
(* Histories read back.                                                    *)
(***************************************************************************)
\* the items taken from stream s's queue, in the order taken
Taken(s) == [i \in 1..Len(deqLog[s]) |-> deqLog[s][i].item]
\* the events accessor has removed an item of stream s
Snapshotted(s) == \E i \in 1..Len(deqLog[s]) : deqLog[s][i].by = 0
\* the events drain n of stream s has yielded, in order
YieldsOf(s, n) ==
    LET ys == SelectSeq(trace[s], LAMBDA e : e.kind = "yield" /\ e.drain = n)
    IN  [i \in 1..Len(ys) |-> ys[i].event]
\* the events every drain of stream s has yielded, in order
AllYields(s) ==
    LET ys == SelectSeq(trace[s], LAMBDA e : e.kind = "yield")
    IN  [i \in 1..Len(ys) |-> ys[i].event]
\* the items before the first sentinel
RECURSIVE BeforeSentinel(_)
BeforeSentinel(items) ==
    IF items = <<>> THEN <<>>
    ELSE IF Head(items) = None THEN <<>>
    ELSE <<Head(items)>> \o BeforeSentinel(Tail(items))
\* timestamps strictly increase along a sequence of events
InEmissionOrder(evs) ==
    \A i, j \in 1..Len(evs) : i < j => evs[i].timestamp_ns < evs[j].timestamp_ns

(***************************************************************************)
(* C1.  One stream, a producer that emits n events inside the scope and    *)
(* then closes, one drain, no use of the events accessor: when the drain   *)
(* has ended it has yielded exactly the events enqueued before the first   *)
(* sentinel, each once, in emission order, and nothing else.               *)
(***************************************************************************)
C1_DrainYieldsEmitted ==
    \A s \in Streams :
        (drain[s] = "exhausted" /\ drains[s] = 1 /\ ~Snapshotted(s)) =>
            /\ YieldsOf(s, 1) = BeforeSentinel(enqLog[s])
            /\ InEmissionOrder(YieldsOf(s, 1))
            /\ \A i \in 1..Len(YieldsOf(s, 1)) : IsEvent(YieldsOf(s, 1)[i])

\* two events emitted, the stream closed, and the one drain ended
C1_Witness ==
    /\ drain[1] = "exhausted"
    /\ drains[1] = 1
    /\ ~Snapshotted(1)
    /\ Len(YieldsOf(1, 1)) = 2
    /\ Len(BeforeSentinel(enqLog[1])) = 2

(***************************************************************************)
(* C2.  With producers in several tasks and the drain interleaved with     *)
(* them in every way: items leave a queue in the order their puts ran and  *)
(* none is lost (taken items followed by queued items are the enqueued     *)
(* items), the drain yields events in that order, and unless the events    *)
(* accessor removed items the drains have yielded every event enqueued     *)
(* ahead of what they have taken, so a sentinel is seen only after all     *)
(* the events put before it.                                               *)
(***************************************************************************)
C2_DeliveryInEnqueueOrder ==
    \A s \in Streams :
        /\ Taken(s) \o queue[s] = enqLog[s]
        /\ InEmissionOrder(Events(enqLog[s]))
        /\ InEmissionOrder(AllYields(s))
        /\ ~Snapshotted(s) => AllYields(s) = Events(SubSeq(enqLog[s], 1, Len(deqLog[s])))

\* a producer in a created task enqueues while the drain, which has already
\* yielded an event, is still running
C2_Witness ==
    /\ last.op = "add_event" /\ last.task = 1 /\ last.stream = 1 /\ last.exc = "none"
    /\ drain[1] = "running"
    /\ Len(AllYields(1)) = 1
    /\ Len(queue[1]) = 1

(***************************************************************************)
(* C8.  close never raises, also when called twice or before any emission; *)
(* on a stream whose first enqueued item is a sentinel, the first drain,   *)
(* once it has taken that item, has ended and has yielded nothing.         *)
(***************************************************************************)
C8_CloseTwiceOrEarly ==
    /\ last.op = "close" => last.exc = "none"
    /\ \A s \in Streams :
          (/\ enqLog[s] # <<>> /\ Head(enqLog[s]) = None
           /\ deqLog[s] # <<>> /\ deqLog[s][1].by = 1) =>
              /\ YieldsOf(s, 1) = <<>>
              /\ drain[s] = "exhausted" \/ drains[s] > 1

\* close called twice before any emission, then drained once
C8_Witness ==
    /\ enqLog[1] = <<None, None>>
    /\ drain[1] = "exhausted"
    /\ drains[1] = 1
    /\ Len(queue[1]) = 1

(***************************************************************************)
(* C9.  For every event a drain yields and every callback registered       *)
(* before that drain started: the callback was invoked with the event      *)
(* exactly once, before the yield, and the callbacks ran in registration   *)
(* order; when a drain has ended at a sentinel, each such callback has     *)
(* seen exactly the yielded sequence.                                      *)
(***************************************************************************)
\* the number of callbacks registered when drain n of stream s started
RegisteredAtStart(s, n) ==
    LET st == SelectSeq(trace[s], LAMBDA e : e.kind = "start" /\ e.drain = n)
    IN  st[1].index
\* the positions in trace[s] where drain n invoked callback number i with event ev
Invocations(s, n, i, ev) ==
    {q \in 1..Len(trace[s]) :
        /\ trace[s][q].kind = "callback" /\ trace[s][q].drain = n
        /\ trace[s][q].index = i /\ trace[s][q].event = ev}
\* the events callback number i saw during drain n, in order
SeenBy(s, n, i) ==
    LET cs == SelectSeq(trace[s],
                        LAMBDA e : e.kind = "callback" /\ e.drain = n /\ e.index = i)
    IN  [k \in 1..Len(cs) |-> cs[k].event]

C9_CallbacksBeforeYield ==
    \A s \in Streams :
        /\ \A p \in 1..Len(trace[s]) :
              trace[s][p].kind = "yield" =>
                 LET n == trace[s][p].drain
                     ev == trace[s][p].event
                 IN  \A i \in 1..RegisteredAtStart(s, n) :
                        /\ Cardinality(Invocations(s, n, i, ev)) = 1
                        /\ \A q \in Invocations(s, n, i, ev) :
                              /\ q < p
                              /\ trace[s][q].callback = callbacks[s][i]
                              /\ \A j \in 1..(i - 1) :
                                    \A r \in Invocations(s, n, j, ev) : r < q
        /\ drain[s] = "exhausted" =>
              \A i \in 1..RegisteredAtStart(s, drains[s]) :
                  SeenBy(s, drains[s], i) = YieldsOf(s, drains[s])

\* two callbacks registered, then a drain that yielded two events and ended
C9_Witness ==
    /\ drain[1] = "exhausted"
    /\ drains[1] = 1
    /\ RegisteredAtStart(1, 1) = 2
    /\ Len(YieldsOf(1, 1)) = 2

(***************************************************************************)
(* Scopes read back: the stream a task's open scopes make current, from    *)
(* the history of its enters and exits and not from the slot.              *)
(***************************************************************************)
Top(t) == IF scope[t] # <<>> THEN Last(scope[t]) ELSE base[t]

(***************************************************************************)
(* C3.  Nested streams are isolated.  No event is ever in the channels of  *)
(* two streams; and as long as streams are entered and exited as with      *)
(* blocks do it, each event a task emits is enqueued into the channel of   *)
(* the innermost stream the task has open (the inner stream while it is    *)
(* active, the outer one before it is entered and after it has exited)     *)
(* and into no other channel.                                              *)
(***************************************************************************)
C3_NestedStreamsIsolated ==
    /\ [](\A i \in 1..Len(enqLog[1]), j \in 1..Len(enqLog[2]) :
             IsEvent(enqLog[1][i]) => enqLog[1][i] # enqLog[2][j])
    /\ [][(Disciplined /\ clock' = clock + 1) =>
             LET t == last'.task
                 s == Top(t)
             IN  /\ last'.op = "add_event"
                 /\ \A r \in Streams :
                       IF r = s
                       THEN /\ Len(enqLog'[r]) = Len(enqLog[r]) + 1
                            /\ SubSeq(enqLog'[r], 1, Len(enqLog[r])) = enqLog[r]
                            /\ IsEvent(Last(enqLog'[r]))
                            /\ Last(enqLog'[r]).timestamp_ns = clock'
                            /\ queue'[r] = Append(queue[r], Last(enqLog'[r]))
                       ELSE enqLog'[r] = enqLog[r] /\ queue'[r] = queue[r]]_vars

\* the main task entered stream 1, inside it stream 2, emitted, left stream 2
\* and emitted again: the first event is in stream 2 only, the second in stream 1
C3_Witness ==
    /\ Disciplined
    /\ scope[0] = <<1>>
    /\ last.op = "add_event" /\ last.task = 0
    /\ Len(enqLog[2]) = 1 /\ enqLog[2][1].timestamp_ns = 1
    /\ Len(enqLog[1]) = 1 /\ enqLog[1][1].timestamp_ns = 2
    /\ queue[1] = enqLog[1] /\ queue[2] = enqLog[2]

(***************************************************************************)
(* C4.  The slot behaves as a stack: as long as every exit is the exit of  *)
(* the caller's innermost open scope, after every enter and exit, normal   *)
(* or unwinding, the slot of each task holds the innermost stream the task *)
(* still has open, or what it held before the task entered any stream.     *)
(***************************************************************************)
C4_ExitRestoresSlot ==
    lifo => \A t \in spawned : event_queue[t] = Top(t)

(***************************************************************************)
(* C5.  An exit of a stream scope that returns, in the async form or the   *)
(* sync form, has put the termination sentinel into the stream's channel   *)
(* as the last item.                                                       *)
(***************************************************************************)
C5_ScopeExitEnqueuesSentinel ==
    (last.op \in {"__aexit__", "__exit__"} /\ last.exc = "none") =>
        /\ enqLog[last.stream] # <<>>
        /\ Last(enqLog[last.stream]) = None
        /\ queue[last.stream] # <<>>
        /\ Last(queue[last.stream]) = None

C7_SpanGetsJsonStreamGetsOriginal ==
    (/\ last.op = "add_event" /\ last.exc = "none" /\ last.stream # 0
     /\ current_span[last.task].recording) =>
        LET given == IF last.arg = None THEN <<>> ELSE last.arg.v
            toSpan == Last(span_events).attributes.v
            toStream == Last(enqLog[last.stream]).attributes.v
        IN  /\ toStream = given
            /\ Len(toSpan) = Len(given)
            /\ \A i \in 1..Len(given) :
                  /\ toSpan[i][1] = given[i][1]
                  /\ toSpan[i][2] =
                        CASE given[i][2] = PyDict(<< <<"nested", PyStr("value")>> >>) ->
                                PyStr("{\"nested\": \"value\"}")
                          [] given[i][2] = PyList(<<PyInt(1), PyInt(2)>>) -> PyStr("[1, 2]")
                          [] OTHER -> given[i][2]

\* C7 as stated: a tuple, being a sequence, is handed to the span as JSON text too
C7_EverySequenceAsJson ==
    (/\ last.op = "add_event" /\ last.exc = "none" /\ last.stream # 0
     /\ current_span[last.task].recording) =>
        LET given == IF last.arg = None THEN <<>> ELSE last.arg.v
            toSpan == Last(span_events).attributes.v
            toStream == Last(enqLog[last.stream]).attributes.v
        IN  /\ toStream = given
            /\ Len(toSpan) = Len(given)
            /\ \A i \in 1..Len(given) :
                  /\ toSpan[i][1] = given[i][1]
                  /\ toSpan[i][2] =
                        CASE given[i][2] = PyDict(<< <<"nested", PyStr("value")>> >>) ->
                                PyStr("{\"nested\": \"value\"}")
                          [] given[i][2] = PyList(<<PyInt(1), PyInt(2)>>) -> PyStr("[1, 2]")
                          [] given[i][2] = PyTuple(<<PyInt(1), PyInt(2)>>) -> PyStr("[1, 2]")
                          [] OTHER -> given[i][2]

\* inside a scope of stream 1 and a recording span, a call with a number, a
\* dict and a list, then a call with a tuple: the span holds the two JSON
\* texts and the tuple, the channel holds both events as given
C7_Witness ==
    /\ last.op = "add_event" /\ last.exc = "none" /\ last.stream = 1
    /\ last.arg = AttrTuple
    /\ current_span[0].recording
    /\ Len(span_events) = 2 /\ Len(enqLog[1]) = 2
    /\ enqLog[1][1].attributes = AttrComplex
    /\ enqLog[1][2].attributes = AttrTuple
    /\ Len(span_events[1].attributes.v) = 3
    /\ span_events[1].attributes.v[2][2] = PyStr("{\"nested\": \"value\"}")
    /\ span_events[1].attributes.v[3][2] = PyStr("[1, 2]")
    /\ span_events[2].attributes.v[1][2] = PyTuple(<<PyInt(1), PyInt(2)>>)

(***************************************************************************)
(* C10.  Liveness of the drain, with no callbacks registered.  Under fair  *)
(* scheduling of the drain, a running drain whose queue holds a sentinel   *)
(* (put by close or by the exit of the async scope) eventually ends,       *)
(* unless the events accessor is called meanwhile: the accessor empties    *)
(* the queue and discards the sentinel.  Conversely a drain ends only by   *)
(* taking a sentinel from the head of the queue, so no drain has ended     *)
(* while no sentinel was ever enqueued.                                    *)
(***************************************************************************)
C10_DrainEndsUnlessSnapshot ==
    /\ \A s \in {1} :
          (drain[s] = "running" /\ Sentinels(queue[s]) # <<>>) ~>
              (drain[s] # "running" \/ (last.op = "events" /\ last.stream = s))
    /\ [][\A s \in Streams :
             (drain[s] = "running" /\ drain'[s] # "running") =>
                 /\ queue[s] # <<>> /\ Head(queue[s]) = None
                 /\ queue'[s] = Tail(queue[s])
                 /\ drain'[s] = "exhausted"]_vars
    /\ [](\A s \in Streams : Sentinels(enqLog[s]) = <<>> => drain[s] \in {"none", "running"})

\* C10 as stated: once a sentinel is enqueued, the single running drain
\* eventually ends
C10_CloseEndsDrain ==
    (drain[1] = "running" /\ drains[1] = 1 /\ Sentinels(queue[1]) # <<>>) ~>
        drain[1] # "running"

\* a drain that was suspended on the empty queue, then took an event and, after
\* close, the sentinel, with no use of the events accessor
C10_Witness ==
    /\ drain[1] = "exhausted" /\ drains[1] = 1
    /\ last.op = "__anext__" /\ last.exc = "StopAsyncIteration"
    /\ ~Snapshotted(1)
    /\ enqLog[1] # <<>> /\ Last(enqLog[1]) = None /\ Len(Sentinels(enqLog[1])) = 1
    /\ Len(YieldsOf(1, 1)) = 1
    /\ queue[1] = <<>>

(***************************************************************************)
(* C11.  The slot is per task.  A task created while a stream is active    *)
(* starts with that stream in its slot (with none when none is active),    *)
(* whatever its parent does afterwards; an enter, an exit or an emission   *)
(* by one task leaves the slot of every other task as it was; and, while   *)
(* streams are entered and exited as with blocks do it, a task enqueues    *)
(* only into a stream it inherited when it was created or has itself       *)
(* entered and not left.                                                   *)
(***************************************************************************)
C11_SlotPerTask ==
    /\ [][\A t \in Tasks :
             (t \in spawned' /\ t \notin spawned) =>
                 /\ last'.op = "create_task"
                 /\ event_queue'[t] = event_queue[last'.task]
                 /\ \A u \in Tasks \ {t} : event_queue'[u] = event_queue[u]]_vars
    /\ [][(last'.op \in {"__aenter__", "__enter__", "__aexit__", "__exit__", "add_event"}) =>
             \A u \in Tasks \ {last'.task} : event_queue'[u] = event_queue[u]]_vars
    /\ [][(Disciplined /\ clock' = clock + 1) =>
             \A s \in Streams :
                 enqLog'[s] # enqLog[s] =>
                     (s = base[last'.task] \/ s \in Range(scope[last'.task]))]_vars
    /\ [](Disciplined =>
             \A t \in spawned : event_queue[t] \in {base[t]} \cup Range(scope[t]))

\* task 1 was created inside the scope of stream 1; the main task then entered
\* stream 2 as well, and the emission of task 1 went into stream 1 only
C11_Witness ==
    /\ Disciplined
    /\ base[1] = 1 /\ scope[1] = <<>>
    /\ scope[0] = <<1, 2>>
    /\ last.op = "add_event" /\ last.task = 1 /\ last.stream = 1 /\ last.exc = "none"
    /\ Len(enqLog[1]) = 1 /\ enqLog[2] = <<>>
    /\ event_queue[0] = 2 /\ event_queue[1] = 1

(***************************************************************************)
(* Frames: one task nests stream 1 (async form) and stream 2 (sync form)   *)
(* in either order, emits with and without a recording span, closes stream *)
(* 1 at any time and registers a callback on it.                           *)
(***************************************************************************)
FrameNext ==
    \/ \E name \in Names : add_event(0, name, AttrScalar)
    \/ ~Opened(1) /\ aenter(0, 1)
    \/ ~Opened(2) /\ enter(0, 2)
    \/ \E unwinding \in BOOLEAN : Innermost(0, 1) /\ aexit(0, 1, unwinding)
    \/ \E unwinding \in BOOLEAN : Innermost(0, 2) /\ exit(0, 2, unwinding)
    \/ close(1)
    \/ \E span \in SpanSet : use_span(0, span)
    \/ on_event(1, "cb_ok")

FrameSpec == Init /\ [][FrameNext]_vars

(***************************************************************************)
(* C12.  An add_event call that returns writes one event to the span if    *)
(* the current span is recording and none otherwise, appends one event to  *)
(* the channel of the stream in the caller's slot if the slot holds one    *)
(* and to no channel otherwise, and changes nothing else: not the slot,    *)
(* not another stream's channel, not the callbacks, tokens or drains.      *)
(***************************************************************************)
C12_AddEventEffects ==
    [][(clock' = clock + 1) =>
          LET t == last'.task
              s == event_queue[t]
          IN  /\ last'.op = "add_event" /\ last'.exc = "none" /\ last'.stream = s
              /\ IF current_span[t].recording
                 THEN /\ Len(span_events') = Len(span_events) + 1
                      /\ SubSeq(span_events', 1, Len(span_events)) = span_events
                      /\ Last(span_events').span = current_span[t]
                 ELSE span_events' = span_events
              /\ \A r \in Streams :
                    IF r = s
                    THEN /\ Len(queue'[r]) = Len(queue[r]) + 1
                         /\ SubSeq(queue'[r], 1, Len(queue[r])) = queue[r]
                         /\ IsEvent(Last(queue'[r]))
                         /\ Last(queue'[r]).timestamp_ns = clock'
                    ELSE queue'[r] = queue[r]
              /\ event_queue' = event_queue
              /\ callbacks' = callbacks
              /\ token' = token
              /\ drain' = drain
              /\ current_span' = current_span
              /\ spawned' = spawned]_vars

\* stream 2 entered inside stream 1, which holds an event and a sentinel and has
\* a callback; with a recording span a call has written one span event and put
\* one event into stream 2
C12_Witness ==
    /\ last.op = "add_event" /\ last.exc = "none" /\ last.stream = 2
    /\ scope[0] = <<1, 2>>
    /\ current_span[0].recording
    /\ Len(span_events) = 1
    /\ Len(queue[2]) = 1 /\ IsEvent(queue[2][1]) /\ queue[2][1].timestamp_ns = 2
    /\ Len(queue[1]) = 2 /\ IsEvent(queue[1][1]) /\ queue[1][2] = None
    /\ callbacks[1] = <<"cb_ok">>

(***************************************************************************)
(* C13.  When an enter of a stream, in either form, returns, the channel   *)
(* it has installed in the slot is empty: it holds no event and no         *)
(* sentinel, whatever was done with the stream object before.              *)
(***************************************************************************)
C13_EnterInstallsEmptyChannel ==
    (last.op \in {"__aenter__", "__enter__"} /\ last.exc = "none") =>
        /\ event_queue[last.task] = last.stream
        /\ queue[last.stream] = <<>>

(***************************************************************************)
(* C14.  After the exit of a stream.  As stated: no emission that starts   *)
(* after the exit, in any task, is enqueued into the stream's channel.     *)
(* What holds, while streams are entered and exited as with blocks do it:  *)
(* the exit leaves the exiting task's slot on the innermost stream the     *)
(* task still has open or on what it started with, never on the exited     *)
(* stream unless the task was created with it; and an emission enqueued    *)
(* into a stream that no task has open any more comes from a task that was *)
(* created while that stream was active and has no stream of its own open. *)
(***************************************************************************)
C14_ExitedChannelOnlyForHeirs ==
    /\ [][(Disciplined' /\ last'.op \in {"__aexit__", "__exit__"} /\ scope' # scope) =>
             LET t == last'.task
                 s == last'.stream
             IN  /\ last'.exc = "none"
                 /\ s \notin Range(scope'[t])
                 /\ event_queue'[t] =
                       IF scope'[t] # <<>> THEN Last(scope'[t]) ELSE base[t]
                 /\ event_queue'[t] = s => (base[t] = s /\ scope'[t] = <<>>)]_vars
    /\ [][(Disciplined /\ clock' = clock + 1 /\ last'.stream # 0
              /\ ~Opened(last'.stream)) =>
             /\ base[last'.task] = last'.stream
             /\ scope[last'.task] = <<>>
             /\ Last(enqLog'[last'.stream]).timestamp_ns = clock']_vars

\* C14 as stated: an emission is enqueued only into a stream some task has open
C14_ExitedChannelUnreachable ==
    [][(Disciplined /\ clock' = clock + 1 /\ last'.stream # 0) =>
          Opened(last'.stream)]_vars

\* the main task entered stream 1, created task 1 and left stream 1; its own
\* emission then went nowhere and the emission of task 1 went into stream 1,
\* behind the sentinel
C14_Witness ==
    /\ Disciplined
    /\ ~Opened(1) /\ ~Opened(2)
    /\ base[1] = 1
    /\ event_queue[0] = 0 /\ event_queue[1] = 1
    /\ last.op = "add_event" /\ last.task = 1 /\ last.stream = 1 /\ last.exc = "none"
    /\ clock = 2
    /\ Len(enqLog[1]) = 2 /\ enqLog[1][1] = None /\ enqLog[1][2].timestamp_ns = 2
    /\ enqLog[2] = <<>>

(***************************************************************************)
(* C15.  The drain never yields the sentinel, and once a drain of a stream *)
(* has taken the sentinel no drain takes an item from that stream's        *)
(* channel any more, also when the stream is iterated again.               *)
(***************************************************************************)
C15_NoReceiveAfterExhausted ==
    /\ [](\A s \in Streams : \A i \in 1..Len(AllYields(s)) : IsEvent(AllYields(s)[i]))
    /\ [][\A s \in Streams :
             (\E i \in 1..Len(deqLog[s]) :
                 deqLog[s][i].item = None /\ deqLog[s][i].by # 0) =>
                 (Len(deqLog'[s]) > Len(deqLog[s]) => Last(deqLog'[s]).by = 0)]_vars

Continued(s, p) ==
    /\ p < Len(trace[s])
    /\ trace[s][p + 1].drain = trace[s][p].drain
    /\ trace[s][p + 1].event = trace[s][p].event
    /\ \/ trace[s][p + 1].kind = "callback" /\ trace[s][p + 1].index = trace[s][p].index + 1
       \/ trace[s][p + 1].kind = "yield"

C17_CallbackFailureEndsDrain ==
    /\ [](\A s \in Streams : \A p \in 1..Len(trace[s]) :
             (trace[s][p].kind = "callback" /\ ~Continued(s, p)) =>
                 /\ trace[s][p].callback \in FailingCallbacks
                 /\ \A q \in (p + 1)..Len(trace[s]) : trace[s][q].drain # trace[s][p].drain
                 /\ trace[s][p].drain = drains[s] => drain[s] = "failed"
                 /\ \A i \in 1..Len(queue[s]) : queue[s][i] # trace[s][p].event)
    /\ [](\A s \in Streams :
             drain[s] = "failed" =>
                 /\ trace[s] # <<>>
                 /\ Last(trace[s]).kind = "callback"
                 /\ Last(trace[s]).drain = drains[s])
    /\ [][\A s \in Streams :
             (drain'[s] = "failed" /\ drain[s] # "failed") =>
                 /\ last'.op = "__anext__" /\ last'.exc = "CallbackError"
                 /\ queue[s] # <<>> /\ queue'[s] = Tail(queue[s])
                 /\ Last(trace'[s]).event = Head(queue[s])]_vars

\* two callbacks, the second one raises on the first event: the drain has
\* failed without a yield while the second event is still queued
C17_Witness ==
    /\ drain[1] = "failed" /\ drains[1] = 1
    /\ last.op = "__anext__" /\ last.exc = "CallbackError"
    /\ callbacks[1] = <<"cb_ok", "cb_raises">>
    /\ Len(trace[1]) = 3
    /\ trace[1][2].callback = "cb_ok" /\ trace[1][3].callback = "cb_raises"
    /\ YieldsOf(1, 1) = <<>>
    /\ Len(queue[1]) = 1 /\ IsEvent(queue[1][1])

(***************************************************************************)
(* C18.  The events accessor returns at once, whatever the queue holds:    *)
(* its result is the events that were buffered, all of them, each once, in *)
(* enqueue order, and no sentinel; it leaves the channel empty, buffered   *)
(* sentinels removed too, and touches nothing else; a second call with no  *)
(* emission in between returns the empty list.                             *)
(***************************************************************************)
C18_SnapshotReturnsBuffered ==
    /\ [][(last'.op = "events") =>
             LET s == last'.stream
                 r == last'.arg
             IN  /\ last'.exc = "none"
                 /\ \A i \in 1..Len(r) : IsEvent(r[i])
                 /\ Range(r) = {queue[s][i] : i \in 1..Len(queue[s])} \ {None}
                 /\ Len(r) = Len(queue[s]) - Len(Sentinels(queue[s]))
                 /\ InEmissionOrder(r)
                 /\ queue'[s] = <<>>
                 /\ \A o \in Streams \ {s} : queue'[o] = queue[o]
                 /\ UNCHANGED <<event_queue, drain, enqLog, trace, callbacks, token>>]_vars
    /\ [][(last.op = "events" /\ last'.op = "events" /\ last'.stream = last.stream) =>
             last'.arg = <<>>]_vars
    /\ []((last.op = "events") => queue[last.stream] = <<>>)
    /\ [](ENABLED events(1))

\* an event, a sentinel and a second event were buffered: the accessor has
\* returned the two events and the channel is empty
C18_Witness ==
    /\ last.op = "events" /\ last.stream = 1
    /\ Len(enqLog[1]) = 3 /\ enqLog[1][2] = None
    /\ last.arg = <<enqLog[1][1], enqLog[1][3]>>
    /\ Len(deqLog[1]) = 3 /\ \A i \in 1..3 : deqLog[1][i].by = 0
    /\ queue[1] = <<>>

(***************************************************************************)
(* C19.  Every event add_event enqueues carries the name of the current    *)
(* span, its span id as 16 hex digits and its trace id as 32 hex digits    *)
(* when that span is recording, and three empty strings when it is not;    *)
(* no event has some of the three filled and the others empty.             *)
(***************************************************************************)
C19_SpanFieldsAllOrNone ==
    /\ [](\A s \in Streams : \A i \in 1..Len(enqLog[s]) :
             LET e == enqLog[s][i]
             IN  \/ e = None
                 \/ e.span_name = "" /\ e.span_id = "" /\ e.trace_id = ""
                 \/ /\ e.span_name = "test_span"
                    /\ e.span_id = "000000000000abcd"
                    /\ e.trace_id = "00000000000000000000000000012345"
                    /\ Len(e.span_id) = 16 /\ Len(e.trace_id) = 32)
    /\ [][(clock' = clock + 1 /\ last'.stream # 0) =>
             LET e == Last(enqLog'[last'.stream])
             IN  IF current_span[last'.task].recording
                 THEN e.span_name = current_span[last'.task].name /\ e.span_id # ""
                      /\ e.trace_id # ""
                 ELSE e.span_name = "" /\ e.span_id = "" /\ e.trace_id = ""]_vars

\* in the scope of stream 1, one event emitted with no span current and one
\* with a recording span
C19_Witness ==
    /\ Len(enqLog[1]) = 2
    /\ enqLog[1][1].span_name = "" /\ enqLog[1][1].span_id = "" /\ enqLog[1][1].trace_id = ""
    /\ enqLog[1][2].span_name = "test_span"
    /\ enqLog[1][2].span_id = "000000000000abcd"
    /\ enqLog[1][2].trace_id = "00000000000000000000000000012345"

(***************************************************************************)
(* C20.  close appends one sentinel at the tail of the stream's own        *)
(* channel and changes nothing else: the slot keeps its value, the events  *)
(* buffered stay in place and in order, the other stream's channel, the    *)
(* tokens, callbacks and spans are as before.                              *)
(***************************************************************************)
C20_CloseAppendsOneSentinel ==
    [][(last'.op = "close") =>
          LET s == last'.stream
          IN  /\ last'.exc = "none"
              /\ Len(queue'[s]) = Len(queue[s]) + 1
              /\ SubSeq(queue'[s], 1, Len(queue[s])) = queue[s]
              /\ Last(queue'[s]) = None
              /\ \A o \in Streams \ {s} : queue'[o] = queue[o]
              /\ UNCHANGED <<event_queue, current_span, spawned, token, callbacks, drain,
                             clock, span_events, deqLog, trace, scope>>]_vars

\* stream 1 entered inside stream 2, each holding an event: stream 1 was closed
\* and is still the active channel
C20_Witness ==
    /\ last.op = "close" /\ last.stream = 1
    /\ scope[0] = <<2, 1>> /\ event_queue[0] = 1
    /\ Len(queue[2]) = 1 /\ IsEvent(queue[2][1])
    /\ Len(queue[1]) = 2 /\ IsEvent(queue[1][1]) /\ queue[1][2] = None

(***************************************************************************)
(* C21.  With no active channel and no recording span add_event has        *)
(* nothing to do on behalf of a listener and serializes nothing, so the    *)
(* call returns normally whatever the attribute values are and puts        *)
(* nothing into any channel: a failure of the serialization is how a       *)
(* serialization shows in the state.                                       *)
(***************************************************************************)
C21_NothingSerializedWhenIdle ==
    (/\ last.op = "add_event" /\ last.stream = 0
     /\ ~current_span[last.task].recording) =>
        /\ last.exc = "none"
        /\ \A s \in Streams : \A i \in 1..Len(enqLog[s]) :
               enqLog[s][i] = None \/ enqLog[s][i].timestamp_ns # clock

(***************************************************************************)
(* Aliasing.  attrs = attributes or {} keeps the caller's own dict when it *)
(* is not empty, and StreamEvent(attributes=attrs) stores that same        *)
(* object: the dataclass is frozen, the dict it refers to is not.          *)
(***************************************************************************)
\* d[key] = value on a dict
setitem(d, key, value) ==
    IF \E i \in 1..Len(d.v) : d.v[i][1] = key
    THEN PyDict([i \in 1..Len(d.v) |-> IF d.v[i][1] = key THEN <<key, value>> ELSE d.v[i]])
    ELSE PyDict(Append(d.v, <<key, value>>))

\* the event holds the caller's dict object (a non-empty dict was passed)
SharesCallerDict(event) == IsEvent(event) /\ event.attributes.v # <<>>

\* the producer assigns to a key of the dict it passed to add_event, while the
\* event is still queued in stream s at position i
caller_setitem(s, i, value) ==
    /\ i \in 1..Len(queue[s])
    /\ SharesCallerDict(queue[s][i])
    /\ queue[s][i].attributes.v[1][2] # value
    /\ queue' = [queue EXCEPT ![s][i].attributes =
                    setitem(@, queue[s][i].attributes.v[1][1], value)]
    /\ last' = Call("caller_setitem", 0, s, "none", None)
    /\ UNCHANGED <<event_queue, current_span, spawned, token, callbacks, drain, clock,
                   span_events, enqLog, deqLog, trace, drains, scope, base, lifo, fresh>>

\* The main task emits inside "async with" on stream 1 and may afterwards assign
\* to the dict it passed; a callback is registered and one consumer drains.
AliasNext ==
    \/ \E name \in Names, attributes \in {AttrScalar, AttrEmpty} :
          add_event(0, name, attributes)
    \/ \E i \in 1..MaxEmit : caller_setitem(1, i, PyStr("changed"))
    \/ on_event(1, "cb_ok")
    \/ ~Opened(1) /\ aenter(0, 1)
    \/ \E unwinding \in BOOLEAN : Innermost(0, 1) /\ aexit(0, 1, unwinding)
    \/ aiter(1)
    \/ anext(1)

AliasSpec == Init /\ [][AliasNext]_vars

(***************************************************************************)
(* C22.  What the drain yields and what every callback is invoked with is  *)
(* an event with the name, the attribute keys and the attribute values     *)
(* the producer supplied at the add_event call: it equals the event as it  *)
(* was enqueued.                                                           *)
(***************************************************************************)
C22_ObservedAsSupplied ==
    \A s \in Streams : \A p \in 1..Len(trace[s]) :
        trace[s][p].kind \in {"yield", "callback"} =>
            \E i \in 1..Len(enqLog[s]) : enqLog[s][i] = trace[s][p].event

(***************************************************************************)
(* C23.  An exit resets the slot to the value the stream's own enter found *)
(* there, whatever the slot holds now.  With stream I entered inside       *)
(* stream O by one task: when O exits first, the slot goes back to what    *)
(* the task had before O although I is still open, and when I exits after  *)
(* that the slot is set to O, where it stays after both have exited.       *)
(***************************************************************************)
\* task t had outer entered and then inner inside it (the token of inner holds
\* outer), and has just left outer while inner is still open
OuterExitedFirst(t, outer, inner) ==
    /\ last.op \in {"__aexit__", "__exit__"} /\ last.exc = "none"
    /\ last.task = t /\ last.stream = outer
    /\ outer # inner
    /\ scope[t] = <<inner>>
    /\ fresh /\ ~lifo
    /\ token[outer] # None /\ token[inner] # None
    /\ token[outer].used /\ ~token[inner].used
    /\ token[inner].old = outer

C23_ExitRestoresValueAtOwnEnter ==
    /\ [][\A s \in Streams :
             (token'[s] # token[s] /\ last'.op \in {"__aenter__", "__enter__"}) =>
                 /\ token'[s].old = event_queue[last'.task]
                 /\ event_queue'[last'.task] = s]_vars
    /\ [][\A s \in Streams :
             (token[s] # None /\ token'[s] # token[s]
                 /\ last'.op \in {"__aexit__", "__exit__"}) =>
                 /\ last'.exc = "none"
                 /\ event_queue'[last'.task] = token[s].old]_vars
    /\ [][\A t \in Tasks, outer \in Streams, inner \in Streams :
             (/\ lifo /\ fresh
              /\ scope[t] = <<outer, inner>>
              /\ last'.op \in {"__aexit__", "__exit__"}
              /\ last'.task = t /\ last'.stream = outer) =>
                 /\ last'.exc = "none"
                 /\ event_queue[t] = inner
                 /\ event_queue'[t] = base[t]
                 /\ scope'[t] = <<inner>>
                 /\ OuterExitedFirst(t, outer, inner)']_vars
    /\ [][\A t \in Tasks, outer \in Streams, inner \in Streams :
             (/\ OuterExitedFirst(t, outer, inner)
              /\ last'.op \in {"__aexit__", "__exit__"}
              /\ last'.task = t /\ last'.stream = inner) =>
                 /\ last'.exc = "none"
                 /\ scope'[t] = <<>>
                 /\ event_queue'[t] = outer]_vars

\* the main task entered stream 1, then stream 2, left stream 1 and then
\* stream 2: no scope is open and the slot holds stream 1
C23_Witness ==
    /\ last.op = "__exit__" /\ last.task = 0 /\ last.stream = 2 /\ last.exc = "none"
    /\ scope[0] = <<>>
    /\ fresh /\ ~lifo
    /\ token[1] # None /\ token[2] # None
    /\ token[1].used /\ token[2].used
    /\ token[1].old = 0 /\ token[2].old = 1
    /\ event_queue[0] = 1

(***************************************************************************)
(* A consumer that also takes snapshots: one producer task emits into      *)
(* stream 1, which it keeps open, while callbacks are registered, drains   *)
(* are started and resumed and the events accessor is read.                *)
(***************************************************************************)
LossNext ==
    \/ \E name \in Names : add_event(0, name, AttrScalar)
    \/ \E callback \in Callbacks : on_event(1, callback)
    \/ ~Opened(1) /\ enter(0, 1)
    \/ aiter(1)
    \/ anext(1)
    \/ events(1)

LossSpec == Init /\ [][LossNext]_vars

\* the events of stream s on which a callback raised: the entries of the trace
\* that are the last thing their drain did with the event
Failed(s) ==
    {trace[s][p].event : p \in {q \in 1..Len(trace[s]) :
                                   trace[s][q].kind = "callback" /\ ~Continued(s, q)}}

\* the number of times item was taken from the queue of stream s
TimesTaken(s, item) == Cardinality({i \in 1..Len(deqLog[s]) : deqLog[s][i].item = item})

(***************************************************************************)
(* C24.  The drain takes an event out of the channel before it runs the    *)
(* callbacks on it, and runs them in order with nothing around them: when  *)
(* callback k raises, the callbacks after k are not invoked for the event, *)
(* the event is not yielded, and it is gone from the channel: no later     *)
(* snapshot and no later drain sees it.                                    *)
(***************************************************************************)
C24_FailedEventIsLost ==
    /\ [][\A s \in Streams :
             (last'.op = "__anext__" /\ last'.stream = s /\ last'.exc = "CallbackError") =>
                 /\ queue[s] # <<>> /\ IsEvent(Head(queue[s]))
                 /\ queue'[s] = Tail(queue[s])
                 /\ deqLog'[s] = Append(deqLog[s], [item |-> Head(queue[s]), by |-> drains[s]])
                 /\ \E k \in 1..Len(callbacks[s]) :
                       /\ callbacks[s][k] \in FailingCallbacks
                       /\ Len(trace'[s]) = Len(trace[s]) + k
                       /\ SubSeq(trace'[s], 1, Len(trace[s])) = trace[s]
                       /\ \A i \in 1..k :
                             trace'[s][Len(trace[s]) + i] =
                                 Invoked(drains[s], callbacks[s], Head(queue[s]), i)
                 /\ Head(queue[s]) \in Failed(s)']_vars
    /\ [](\A s \in Streams : \A event \in Failed(s) :
             /\ event \notin Range(queue[s])
             /\ event \notin Range(AllYields(s))
             /\ TimesTaken(s, event) = 1
             /\ \A p, q \in 1..Len(trace[s]) :
                   (trace[s][p].event = event /\ trace[s][q].event = event) =>
                       trace[s][p].drain = trace[s][q].drain
             /\ (last.op = "events" /\ last.stream = s) => event \notin Range(last.arg))

\* two callbacks, the first one raised on the first event and the second one
\* was not invoked; a second drain has since yielded the second event and
\* a snapshot has returned nothing of the first
C24_Witness ==
    /\ callbacks[1] = <<"cb_raises", "cb_ok">>
    /\ Len(enqLog[1]) = 2 /\ IsEvent(enqLog[1][1]) /\ IsEvent(enqLog[1][2])
    /\ Failed(1) = {enqLog[1][1]}
    /\ drains[1] = 2
    /\ AllYields(1) = <<enqLog[1][2]>>
    /\ \A p \in 1..Len(trace[1]) :
          trace[1][p].event = enqLog[1][1] => trace[1][p].callback = "cb_raises"
    /\ last.op = "events" /\ last.stream = 1 /\ last.arg = <<>>

\* the items behind the first sentinel
RECURSIVE AfterSentinel(_)
AfterSentinel(items) ==
    IF items = <<>> THEN <<>>
    ELSE IF Head(items) = None THEN Tail(items)
    ELSE AfterSentinel(Tail(items))

\* a sentinel has been put into the channel of stream s
Closed(s) == \E i \in 1..Len(enqLog[s]) : enqLog[s][i] = None

(***************************************************************************)
(* C25.  An add_event that reaches a channel into which a sentinel was put *)
(* before (after close, or from a task that kept the scope after the async *)
(* exit) returns normally and its event goes behind the sentinel.  The     *)
(* drain that stops at the first sentinel yields none of these events, and *)
(* once it has stopped they, and a second sentinel if there is one, are    *)
(* still in the channel.                                                   *)
(***************************************************************************)
C25_LateEventsStayBuffered ==
    /\ [][\A s \in Streams :
             (/\ last'.op = "add_event" /\ last'.stream = s
              /\ Closed(s)
              /\ ~SerializeRaises(Attrs(last'.arg))) =>
                 /\ last'.exc = "none"
                 /\ Len(queue'[s]) = Len(queue[s]) + 1
                 /\ SubSeq(queue'[s], 1, Len(queue[s])) = queue[s]
                 /\ IsEvent(Last(queue'[s]))
                 /\ enqLog'[s] = Append(enqLog[s], Last(queue'[s]))
                 /\ Last(queue'[s]) \in Range(AfterSentinel(enqLog'[s]))]_vars
    /\ [][\A s \in Streams :
             (last'.op = "__anext__" /\ last'.stream = s
                 /\ last'.exc = "StopAsyncIteration") =>
                 /\ queue[s] # <<>> /\ Head(queue[s]) = None
                 /\ queue'[s] = Tail(queue[s])
                 /\ trace'[s] = trace[s]]_vars
    /\ [](\A s \in Streams :
             (drains[s] = 1 /\ ~Snapshotted(s)) =>
                 /\ \A event \in Range(AfterSentinel(enqLog[s])) :
                       event \notin Range(YieldsOf(s, 1))
                 /\ drain[s] = "exhausted" =>
                       /\ YieldsOf(s, 1) = BeforeSentinel(enqLog[s])
                       /\ queue[s] = AfterSentinel(enqLog[s]))

\* an event, close, a second event, and the sentinel of the async exit: the
\* first drain has stopped after the first event, and the second event and
\* the second sentinel are still queued
C25_Witness ==
    /\ Len(enqLog[1]) = 4
    /\ IsEvent(enqLog[1][1]) /\ enqLog[1][2] = None
    /\ IsEvent(enqLog[1][3]) /\ enqLog[1][4] = None
    /\ last.op = "__anext__" /\ last.exc = "StopAsyncIteration"
    /\ drains[1] = 1 /\ drain[1] = "exhausted" /\ ~Snapshotted(1)
    /\ YieldsOf(1, 1) = <<enqLog[1][1]>>
    /\ queue[1] = <<enqLog[1][3], None>>
    /\ ~Opened(1)

====
